---- MODULE Spec2Model ----
(***************************************************************************)
(* A model of the careerstack job assistant: the Flask routes of           *)
(* app/routes.py, the JobAssistantSupervisor of agents/supervisor.py and   *)
(* the agents it registers.                                                *)
(*                                                                         *)
(* Python strings that the code inspects character by character (chat      *)
(* queries) are sequences of one-character strings; strings the code only  *)
(* passes along (paths, messages) are TLA+ strings.  None is the Python    *)
(* value None.                                                             *)
(***************************************************************************)
EXTENDS Integers, Sequences, FiniteSets, TLC

VARIABLES
    disk,       \* the upload folder: path -> "absent" | "pdf" | "corrupt"
    session,    \* the Flask session of every browser session
    sup,        \* the module-level JobAssistantSupervisor (routes.py:20)
    calls,      \* the agent calls made by the operation that ran last
    req,        \* the operation that ran last and what it was given
    resp,       \* what that operation answered
    fin,        \* input of a directly applied function
    fout        \* its output: << >> before the call, <<result>> after

webVars == <<disk, session, sup, calls, req, resp>>
pureVars == <<fin, fout>>
vars == <<disk, session, sup, calls, req, resp, fin, fout>>

None == "None"

-----------------------------------------------------------------------------
(* Bounds of the model.                                                    *)

\* A query is the concatenation of at most MaxFrags fragments.
MaxFrags == 2

\* The Job Search Agent hands the Supervisor at most MaxListings listings.
MaxListings == 3

-----------------------------------------------------------------------------
(* Chat queries and str.lower().                                           *)

UpperChars == <<"A","B","C","D","E","F","G","H","I","J","K","L","M",
                "N","O","P","Q","R","S","T","U","V","W","X","Y","Z">>
LowerChars == <<"a","b","c","d","e","f","g","h","i","j","k","l","m",
                "n","o","p","q","r","s","t","u","v","w","x","y","z">>

\* str.lower() on one character.
LowerChar(c) ==
    IF \E i \in 1..Len(UpperChars) : UpperChars[i] = c
    THEN LowerChars[CHOOSE i \in 1..Len(UpperChars) : UpperChars[i] = c]
    ELSE c

\* str.lower()
Lower(s) == [i \in 1..Len(s) |-> LowerChar(s[i])]

\* Python's `kw in s` on strings.
Contains(s, kw) ==
    \E i \in 1..(Len(s) - Len(kw) + 1) : SubSeq(s, i, i + Len(kw) - 1) = kw

Fragments ==
  {<<"j","o","b">>,
   <<"J","O","B">>,
   <<"r","o","l","e","s">>,
   <<"c","o","v","e","r"," ","l","e","t","t","e","r">>,
   <<"L","e","t","t","e","r">>,
   <<"r","e","s","u","m","e">>,
   <<"C","V">>,
   <<"s","k","i","l","l">>,
   <<"l","e","a","r","n">>,
   <<"f","i","n","d"," ","o","u","t">>,
   <<"r","e","s","e","a","r","c","h">>,
   <<"j","o">>,
   <<"b">>,
   <<"h","e","l","l","o">>,
   <<" ">>,
   <<"f","i","n","d"," ","m","e"," ","a"," ","s","o","f","t","w","a","r","e",
     " ","e","n","g","i","n","e","e","r"," ","j","o","b">>,
   <<"c">>,
   <<"v">>,
   <<"w","e","a","t","h","e","r">>}

RECURSIVE Concats(_)
Concats(n) ==
    IF n = 0 THEN {<< >>}
    ELSE LET P == Concats(n - 1) IN P \cup {p \o f : p \in P, f \in Fragments}

\* The query strings the model submits.
Queries == Concats(MaxFrags)

-----------------------------------------------------------------------------
(* JobAssistantSupervisor._classify_intent                                 *)

\* The order of the keys of intents_mapping (a dict keeps insertion order).
IntentOrder == <<"job_search", "cover_letter", "resume", "research">>

intents_mapping ==
  [job_search |->
     <<<<"j","o","b">>,
       <<"p","o","s","i","t","i","o","n">>,
       <<"c","a","r","e","e","r">>,
       <<"o","p","p","o","r","t","u","n","i","t","y">>,
       <<"r","o","l","e","s">>>>,
   cover_letter |->
     <<<<"c","o","v","e","r"," ","l","e","t","t","e","r">>,
       <<"a","p","p","l","i","c","a","t","i","o","n">>,
       <<"r","e","c","o","m","m","e","n","d","a","t","i","o","n">>,
       <<"l","e","t","t","e","r">>>>,
   resume |->
     <<<<"r","e","s","u","m","e">>,
       <<"c","v">>,
       <<"s","k","i","l","l">>,
       <<"e","x","p","e","r","i","e","n","c","e">>,
       <<"p","r","o","f","i","l","e">>>>,
   research |->
     <<<<"r","e","s","e","a","r","c","h">>,
       <<"i","n","f","o","r","m","a","t","i","o","n">>,
       <<"l","e","a","r","n">>,
       <<"f","i","n","d"," ","o","u","t">>,
       <<"d","e","t","a","i","l","s">>>>]

\* any(keyword in query for keyword in keywords)
AnyKeyword(query, keywords) ==
    \E k \in 1..Len(keywords) : Contains(query, keywords[k])

\* The loop of lines 164-167 from position n of the table on.
RECURSIVE ClassifyFrom(_, _)
ClassifyFrom(query, n) ==
    IF n > Len(IntentOrder) THEN "unknown"
    ELSE IF AnyKeyword(query, intents_mapping[IntentOrder[n]])
         THEN IntentOrder[n]
         ELSE ClassifyFrom(query, n + 1)

\* A classifier that forgets to lower-case the query.
ClassifyIntentNoLower(query) == ClassifyFrom(query, 1)

\* A classifier that returns the LAST matching intent of the table.
ClassifyIntentLastWins(query) ==
    LET q == Lower(query)
        hits == {n \in 1..Len(IntentOrder) :
                    AnyKeyword(q, intents_mapping[IntentOrder[n]])}
    IN IF hits = {} THEN "unknown"
       ELSE IntentOrder[CHOOSE n \in hits : \A m \in hits : m <= n]

ClassifyIntent(query) == ClassifyFrom(Lower(query), 1)

-----------------------------------------------------------------------------
(* The classifier applied to a query: the specification ClassifySpec.      *)

IdleWeb ==
    /\ disk = None /\ session = None /\ sup = None
    /\ calls = << >> /\ req = None /\ resp = None

ClassifyInit ==
    /\ IdleWeb
    /\ fin \in [op : {"classify"}, query : Queries]
    /\ fout = << >>

Classify ==
    /\ fout = << >>
    /\ fout' = <<ClassifyIntent(fin.query)>>
    /\ UNCHANGED <<fin, disk, session, sup, calls, req, resp>>

ClassifyNext == Classify

ClassifySpec == ClassifyInit /\ [][ClassifyNext]_vars

-----------------------------------------------------------------------------
(* Python values, tagged with their type, and results of calls.            *)

PyNone == [t |-> "none", v |-> None]
PyStr(s) == [t |-> "str", v |-> s]
PyFloat(n) == [t |-> "float", v |-> n]
PyList(seq) == [t |-> "list", v |-> seq]
PyTuple(seq) == [t |-> "tuple", v |-> seq]
PySet(S) == [t |-> "set", v |-> S]
\* A dict: its items in insertion order, each <<key, value>>.
PyDict(items) == [t |-> "dict", v |-> items]
PyStrList(seq) == PyList([i \in 1..Len(seq) |-> PyStr(seq[i])])

\* d.get(k) on a PyDict with a str key; PyNone when absent.
DictGet(d, k) ==
    IF \E i \in 1..Len(d.v) : d.v[i][1] = PyStr(k)
    THEN d.v[CHOOSE i \in 1..Len(d.v) : d.v[i][1] = PyStr(k)][2]
    ELSE PyNone

\* bool(x)
Truthy(x) ==
    CASE x.t = "none" -> FALSE
      [] x.t = "str" -> x.v # ""
      [] x.t = "float" -> x.v # 0
      [] x.t \in {"list", "tuple", "dict"} -> Len(x.v) > 0
      [] x.t = "set" -> x.v # {}
      [] OTHER -> TRUE

\* A call returns a value or raises an exception.
Ret(v) == [ok |-> TRUE, v |-> v]
Raise(type, msg) == [ok |-> FALSE, exc |-> type, msg |-> msg]

-----------------------------------------------------------------------------
(* json.dumps and json.loads (routes.py:26 and routes.py:33).  The JSON     *)
(* text is kept as the tree it denotes: jstr, jnum, jnull, jarr, jobj.     *)

JsonTypeError == [t |-> "TypeError", v |-> None]

\* The key of a JSON object for a dict key: str as is, a number by str(),
\* None as "null"; any other key is a TypeError.
JsonKey(k) ==
    CASE k.t = "str" -> [t |-> "jstr", v |-> k.v]
      [] k.t = "float" -> [t |-> "jstr", v |-> ToString(k.v)]
      [] k.t = "none" -> [t |-> "jstr", v |-> "null"]
      [] OTHER -> JsonTypeError

RECURSIVE JsonDumps(_)
JsonDumps(x) ==
    CASE x.t = "str" -> [t |-> "jstr", v |-> x.v]
      [] x.t = "float" -> [t |-> "jnum", v |-> x.v]
      [] x.t = "none" -> [t |-> "jnull", v |-> None]
      [] x.t \in {"list", "tuple"} ->
            LET kids == [i \in 1..Len(x.v) |-> JsonDumps(x.v[i])]
            IN IF \E i \in 1..Len(kids) : kids[i] = JsonTypeError
               THEN JsonTypeError
               ELSE [t |-> "jarr", v |-> kids]
      [] x.t = "dict" ->
            LET kids == [i \in 1..Len(x.v) |->
                            <<JsonKey(x.v[i][1]), JsonDumps(x.v[i][2])>>]
            IN IF \E i \in 1..Len(kids) :
                      kids[i][1] = JsonTypeError \/ kids[i][2] = JsonTypeError
               THEN JsonTypeError
               ELSE [t |-> "jobj", v |-> kids]
      [] OTHER -> JsonTypeError   \* a set is not JSON serializable

RECURSIVE JsonLoads(_)
JsonLoads(j) ==
    CASE j.t = "jstr" -> PyStr(j.v)
      [] j.t = "jnum" -> PyFloat(j.v)
      [] j.t = "jnull" -> PyNone
      [] j.t = "jarr" -> PyList([i \in 1..Len(j.v) |-> JsonLoads(j.v[i])])
      [] j.t = "jobj" ->
            PyDict([i \in 1..Len(j.v) |->
                       <<PyStr(j.v[i][1].v), JsonLoads(j.v[i][2])>>])

-----------------------------------------------------------------------------
(* ResumeAnalyzerAgent (agents/resume_analyzer.py).                        *)

\* A list holding the members of a set, in some order: list(set(...)).
RECURSIVE SetToList(_)
SetToList(S) ==
    IF S = {} THEN << >>
    ELSE LET x == CHOOSE y \in S : TRUE IN <<x>> \o SetToList(S \ {x})

\* What the model chain and spaCy can make of a readable resume: the parsed
\* EnhancedResumeAnalysis and the organization names found in the text.
Analyses ==
  { [key_skills |-> <<"python", "sql">>,
     experience_summary |-> "five years backend",
     education_level |-> "BSc",
     career_objectives |-> "tech lead",
     recommended_jobs |->
        << [title |-> "Backend Engineer", match_score |-> 90,
            required_skills |-> <<"python">>, missing_skills |-> <<"go">>,
            next_steps |-> <<"learn go">>, job_search_advice |-> "network"] >>,
     skill_gaps |-> << <<"backend", <<"go">>>> >>,
     improvement_areas |-> <<"testing">>,
     experience_level |-> <<"senior">>,
     organizations |-> <<"Acme", "Initech", "Acme">>],
    [key_skills |-> << >>,
     experience_summary |-> "",
     education_level |-> "unknown",
     career_objectives |-> "",
     recommended_jobs |-> << >>,
     skill_gaps |-> << >>,
     improvement_areas |-> << >>,
     experience_level |-> << >>,
     organizations |-> << >>] }

Timestamp == PyStr("2024-01-01T00:00:00")

SeqRange(seq) == {seq[i] : i \in 1..Len(seq)}

\* [step for job in recommended_jobs for step in job.next_steps]
RECURSIVE AllNextSteps(_)
AllNextSteps(jobs) ==
    IF jobs = << >> THEN << >>
    ELSE Head(jobs).next_steps \o AllNextSteps(Tail(jobs))

CareerRecommendations(a) ==
    PyList([i \in 1..Len(a.recommended_jobs) |->
        LET job == a.recommended_jobs[i]
        IN PyDict(<< <<PyStr("Job_Title"), PyStr(job.title)>>,
                     <<PyStr("Match_Score"), PyFloat(job.match_score)>>,
                     <<PyStr("Required_Skills"), PyStrList(job.required_skills)>>,
                     <<PyStr("Skills_to_Develop"), PyStrList(job.missing_skills)>>,
                     <<PyStr("Action_Plan"), PyStrList(job.next_steps)>>,
                     <<PyStr("Search_Tips"), PyStr(job.job_search_advice)>> >>)])

SkillGaps(a) ==
    PyDict([i \in 1..Len(a.skill_gaps) |->
               <<PyStr(a.skill_gaps[i][1]), PyStrList(a.skill_gaps[i][2])>>])

\* "Organizations": list(set(organizations))
Organizations(a) == PyStrList(SetToList(SeqRange(a.organizations)))

\* The record compiled by lines 137-177 from the analysis a, with the given
\* value under "Organizations".
CompileInsights(a, orgs) ==
    PyDict(<<
      <<PyStr("Career_Recommendations"), CareerRecommendations(a)>>,
      <<PyStr("Current_Profile"),
        PyDict(<< <<PyStr("Key_Skills"), PyStrList(a.key_skills)>>,
                  <<PyStr("Experience_Summary"), PyStr(a.experience_summary)>>,
                  <<PyStr("Education_Level"), PyStr(a.education_level)>>,
                  <<PyStr("Organizations"), orgs>> >>)>>,
      <<PyStr("Development_Areas"),
        PyDict(<< <<PyStr("Improvement_Areas"), PyStrList(a.improvement_areas)>>,
                  <<PyStr("Skill_Gaps"), SkillGaps(a)>>,
                  <<PyStr("Action_Items"),
                    PyStrList(AllNextSteps(a.recommended_jobs))>> >>)>>,
      <<PyStr("Career_Context"),
        PyDict(<< <<PyStr("Objectives"), PyStr(a.career_objectives)>>,
                  <<PyStr("Industries"), PyList(<< >>)>>,
                  <<PyStr("Experience_Level"),
                    PyStrList(a.experience_level)>> >>)>>,
      <<PyStr("metadata"),
        PyDict(<< <<PyStr("last_updated"), Timestamp>>,
                  <<PyStr("version"), PyStr("2.0")>>,
                  <<PyStr("analysis_quality"),
                    PyStr(IF Len(a.recommended_jobs) > 0
                          THEN "complete" ELSE "partial")>> >>)>> >>)

\* The record with the organizations left as the set they were collected in.
ResumeInsightsOrgSet(a) == CompileInsights(a, PySet(SeqRange(a.organizations)))

ResumeInsights(a) == CompileInsights(a, Organizations(a))

\* The record returned when the model call or the schema parsing fails.
AnalysisErrorRecord ==
    PyDict(<< <<PyStr("error"), PyStr("Could not fully analyze resume")>>,
              <<PyStr("details"), PyStr("model call failed")>>,
              <<PyStr("timestamp"), Timestamp>> >>)

\* What the language model does when called: it fails, or answers.
LLMOutcomes == {"fail", "ok"}

\* _extract_text_from_pdf on the file kind found at the path: logs and
\* re-raises whatever open() or PyPDF2 raise.
ExtractTextFromPdf(kind) ==
    CASE kind = "pdf" -> Ret("text")
      [] kind = "absent" -> Raise("FileNotFoundError", "No such file or directory")
      [] OTHER -> Raise("PdfReadError", "EOF marker not found")

\* analyze_resume on a file of the given kind, with the model failing
\* (llm = "fail") or producing the analysis a.
AnalyzeResume(kind, llm, a) ==
    LET text == ExtractTextFromPdf(kind)
    IN IF ~text.ok THEN text
       ELSE IF llm = "fail" THEN Ret(AnalysisErrorRecord)
       ELSE Ret(ResumeInsights(a))

-----------------------------------------------------------------------------
(* Text that the agents and the Supervisor produce.  A str is Str(s); the  *)
(* result of sep.join(parts) is kept as its parts, in order.               *)

Str(s) == [kind |-> "str", v |-> s]
Join(sep, parts) == [kind |-> "joined", sep |-> sep, v |-> parts]

\* d.get(k, default) on a dict with str keys kept as a TLA+ record.
Get(d, k, default) == IF k \in DOMAIN d THEN d[k] ELSE default

\* One call of an agent (or of the language model) and its arguments.
Call(agent, method, query, resume_path) ==
    [agent |-> agent, method |-> method, query |-> query,
     resume_path |-> resume_path]

\* str.strip() of blanks.
RECURSIVE StripLeft(_)
StripLeft(s) ==
    IF s # << >> /\ Head(s) = " " THEN StripLeft(Tail(s)) ELSE s

RECURSIVE StripRight(_)
StripRight(s) ==
    IF s # << >> /\ s[Len(s)] = " " THEN StripRight(SubSeq(s, 1, Len(s) - 1))
    ELSE s

Strip(s) == StripRight(StripLeft(s))

-----------------------------------------------------------------------------
(* JobSearchAgent.process (agents/job_search.py:317-367).                  *)

\* Returns [res, calls].  _parse_query calls the model; search_jobs is then
\* called with one argument where it takes two, which raises a TypeError that
\* the except clause turns into an error record.
JobSearchProcess(query, resume_path, llm) ==
    IF resume_path = None \/ resume_path = ""
    THEN [res |-> Ret([status |-> "error",
                       message |-> Str("Resume path is required for job search")]),
          calls |-> << >>]
    ELSE [res |-> Ret([status |-> "error",
                       message |-> Str(IF llm = "fail" THEN "model call failed"
                                       ELSE "search_jobs() missing 1 required positional argument: 'query'")]),
          calls |-> <<Call("llm", "invoke", query, None)>>]

-----------------------------------------------------------------------------
(* CoverLetterAgent.process and generate_cover_letter                      *)
(* (agents/cover_letter_generator.py).                                     *)

\* The CoverLetterContent the model produces.
LetterContent ==
    [opening_paragraph |-> Str("Dear hiring manager"),
     skills_paragraph |-> Str("I know python"),
     motivation_paragraph |-> Str("I admire your work"),
     closing_paragraph |-> Str("Yours sincerely")]

\* The calls _extract_resume_details makes: a fresh analyzer, and through it
\* the model when the text could be extracted.
AnalyzerCalls(resume_path, analysis) ==
    <<Call("ResumeAnalyzerAgent()", "analyze_resume", << >>, resume_path)>>
    \o (IF analysis.ok THEN <<Call("llm", "invoke", << >>, None)>> ELSE << >>)

\* A CoverLetterContent with empty paragraphs in it.
TerseLetterContent ==
    [opening_paragraph |-> Str("Hello"),
     skills_paragraph |-> Str(""),
     motivation_paragraph |-> Str(""),
     closing_paragraph |-> Str("Bye")]

\* What the model does with the cover letter prompt: it fails, or produces
\* one of the two contents.
LetterOutcomes == {"fail", "ok", "terse"}

LetterContentOf(llm2) == IF llm2 = "terse" THEN TerseLetterContent ELSE LetterContent

\* The answer of lines 162-171 for the content c.
LetterRecord(c) ==
    [status |-> "success",
     content |-> Join("\n\n", <<c.opening_paragraph, c.skills_paragraph,
                                c.motivation_paragraph, c.closing_paragraph>>),
     paragraphs |-> [opening |-> c.opening_paragraph,
                     skills |-> c.skills_paragraph,
                     motivation |-> c.motivation_paragraph,
                     closing |-> c.closing_paragraph]]

\* A letter whose skills paragraph is put first.
LetterFromModelSkillsFirst(job_description, llm2, made) ==
    [res |-> Ret([LetterRecord(LetterContentOf(llm2)) EXCEPT
                    !.content = Join("\n\n",
                        <<LetterContentOf(llm2).skills_paragraph,
                          LetterContentOf(llm2).opening_paragraph,
                          LetterContentOf(llm2).motivation_paragraph,
                          LetterContentOf(llm2).closing_paragraph>>)]),
     calls |-> made \o <<Call("llm", "invoke", job_description, None)>>]

\* Lines 145-177 once the resume details are there: the model is asked for
\* the four paragraphs, which are joined by blank lines.
LetterFromModel(job_description, llm2, made) ==
    IF llm2 = "fail"
    THEN [res |-> Ret([status |-> "error", message |-> Str("model call failed")]),
          calls |-> made \o <<Call("llm", "invoke", job_description, None)>>]
    ELSE [res |-> Ret(LetterRecord(LetterContentOf(llm2))),
          calls |-> made \o <<Call("llm", "invoke", job_description, None)>>]

\* generate_cover_letter, given what analyze_resume returned or raised: an
\* exception of the analyzer is not caught here.
GenerateWith(job_description, resume_path, analysis, llm2) ==
    IF ~analysis.ok
    THEN [res |-> analysis, calls |-> AnalyzerCalls(resume_path, analysis)]
    ELSE LetterFromModel(job_description, llm2,
                         AnalyzerCalls(resume_path, analysis))

\* generate_cover_letter: the resume is analyzed by a fresh analyzer (which
\* may raise), then the model is asked for the four paragraphs.
GenerateCoverLetter(job_description, resume_path, kind, llm, a, llm2) ==
    GenerateWith(job_description, resume_path, AnalyzeResume(kind, llm, a), llm2)

\* Lines 56-71 of process: the result g of generate_cover_letter put in the
\* standard format, an exception turned into an error record.
StandardizeLetter(g) ==
    IF ~g.res.ok
    THEN [res |-> Ret([status |-> "error",
                       message |-> Str("Failed to generate cover letter: "
                                       \o g.res.msg)]),
          calls |-> g.calls]
    ELSE IF g.res.v.status = "success"
    THEN [res |-> Ret([status |-> "success",
                       content |-> g.res.v.content,
                       details |-> g.res.v.paragraphs]),
          calls |-> g.calls]
    ELSE g

\* A process without the two checks of lines 38-51.
CoverLetterProcessUnchecked(query, resume_path, kind, llm, a, llm2) ==
    StandardizeLetter(
        GenerateCoverLetter(Strip(query), resume_path, kind, llm, a, llm2))

\* process(query, resume_path); kind is what lies at the path.
CoverLetterProcess(query, resume_path, kind, llm, a, llm2) ==
    IF resume_path = None \/ resume_path = ""
    THEN [res |-> Ret([status |-> "error",
                       message |-> Str("Resume path is required for cover letter generation")]),
          calls |-> << >>]
    ELSE IF Strip(query) = << >>
    THEN [res |-> Ret([status |-> "error",
                       message |-> Str("Job description is required for cover letter generation")]),
          calls |-> << >>]
    ELSE StandardizeLetter(
            GenerateCoverLetter(Strip(query), resume_path, kind, llm, a, llm2))

-----------------------------------------------------------------------------
(* ScrapyWebResearchAgent.run_research (agents/web_researcher.py:83-113).  *)

\* The crawl runs to its end or raises.  The ResultsPipeline class is never
\* handed to the crawler, so self.results is returned as it was set: empty.
RunResearch(crawl) ==
    IF crawl = "fail" THEN Raise("ReactorNotRestartable", "crawl failed")
    ELSE Ret([kind |-> "list", v |-> << >>])

-----------------------------------------------------------------------------
(* JobAssistantSupervisor (agents/supervisor.py).                          *)

\* __init__: no resume yet.
SupervisorInit == [resume_path |-> None, resume_insights |-> PyNone]

\* The keys of the dict _register_agents returns.
RegisteredAgents == {"job_search", "resume_analyzer", "cover_letter", "web_researcher"}

\* Lines 75-85 of set_resume, given what analyze_resume returned or raised (r):
\* resume_path is assigned before the analysis, resume_insights after it.
\* Neither agent has a set_resume_context method, so the loop does nothing.
SetResumeWith(s, resume_path, r) ==
    [sup |-> IF r.ok
             THEN [resume_path |-> resume_path, resume_insights |-> r.v]
             ELSE [s EXCEPT !.resume_path = resume_path],
     calls |-> <<Call("resume_analyzer", "analyze_resume", << >>, resume_path)>>
               \o (IF r.ok THEN <<Call("llm", "invoke", << >>, None)>> ELSE << >>),
     res |-> r]

\* A set_resume that assigns resume_path before it looks at the disk.
SetResumeAssignsFirst(s, d, resume_path, llm, a) ==
    IF resume_path = None
    THEN [sup |-> s, calls |-> << >>,
          res |-> Raise("TypeError", "stat: path should be string, not NoneType")]
    ELSE IF d[resume_path] = "absent"
    THEN [sup |-> [s EXCEPT !.resume_path = resume_path], calls |-> << >>,
          res |-> Raise("FileNotFoundError", "Resume not found at " \o resume_path)]
    ELSE SetResumeWith(s, resume_path, AnalyzeResume(d[resume_path], llm, a))

\* set_resume(resume_path) on Supervisor s with the disk d.  Returns the new
\* Supervisor, what the call returned or raised, and the agent calls made.
SetResume(s, d, resume_path, llm, a) ==
    IF resume_path = None
    THEN [sup |-> s, calls |-> << >>,
          res |-> Raise("TypeError", "stat: path should be string, not NoneType")]
    ELSE IF d[resume_path] = "absent"
    THEN [sup |-> s, calls |-> << >>,
          res |-> Raise("FileNotFoundError", "Resume not found at " \o resume_path)]
    ELSE SetResumeWith(s, resume_path, AnalyzeResume(d[resume_path], llm, a))

\* f"{x:.0f}" of a score kept in half points: round half to even.
Fmt0f(halves) ==
    IF halves % 2 = 0 THEN halves \div 2
    ELSE LET below == halves \div 2
         IN IF below % 2 = 0 THEN below ELSE below + 1

ListingKeys == <<"title", "company", "location", "match_score", "requirements">>

\* The first key the f-string of lines 189-193 reads that the job lacks.
MissingKey(job) ==
    LET missing == {k \in 1..Len(ListingKeys) : ListingKeys[k] \notin DOMAIN job}
    IN IF missing = {} THEN None
       ELSE ListingKeys[CHOOSE k \in missing : \A m \in missing : k <= m]

\* The text block of one listing.
ListingBlock(job) ==
    [Position |-> job.title, Company |-> job.company, Location |-> job.location,
     MatchScore |-> Fmt0f(job.match_score),
     Requirements |-> Join(", ", job.requirements)]

\* sorted(listings, key=match_score, reverse=True): descending, and stable
\* (of the listings with the highest score the first one is taken first).
RECURSIVE SortedDesc(_)
SortedDesc(listings) ==
    IF listings = << >> THEN << >>
    ELSE LET best == CHOOSE i \in 1..Len(listings) :
                        \A j \in 1..Len(listings) :
                            \/ listings[j].match_score < listings[i].match_score
                            \/ (listings[j].match_score = listings[i].match_score /\ i <= j)
             rest == [k \in 1..(Len(listings) - 1) |->
                         IF k < best THEN listings[k] ELSE listings[k + 1]]
         IN <<listings[best]>> \o SortedDesc(rest)

\* A formatter that sorts the listings by descending score before printing.
FormatListingsSorted(listings) ==
    LET sorted == SortedDesc(listings)
    IN Ret(Join("\n\n", [i \in 1..Len(sorted) |-> ListingBlock(sorted[i])]))

\* Lines 188-195: the listings, in the order given, joined by a blank line.
FormatListings(listings) ==
    Ret(Join("\n\n", [i \in 1..Len(listings) |-> ListingBlock(listings[i])]))

\* _format_response(intent, response): the text, or the exception raised.
FormatResponse(intent, response) ==
    IF Get(response, "status", None) = "error"
    THEN Ret(Get(response, "message", Str("An error occurred.")))
    ELSE IF intent = "job_search"
    THEN LET listings == Get(Get(response, "results", [none |-> None]),
                             "listings", << >>)
         IN IF listings = << >> THEN Ret(Str("No job listings found."))
            ELSE IF \E i \in 1..Len(listings) : MissingKey(listings[i]) # None
            THEN LET first == CHOOSE i \in 1..Len(listings) :
                                /\ MissingKey(listings[i]) # None
                                /\ \A j \in 1..(i - 1) : MissingKey(listings[j]) = None
                 IN Raise("KeyError", "'" \o MissingKey(listings[first]) \o "'")
            ELSE FormatListings(listings)
    ELSE IF intent = "cover_letter"
    THEN Ret(Get(response, "content", Str("No cover letter content generated.")))
    ELSE IF intent = "resume"
    THEN Ret([kind |-> "lines", v |-> response])
    ELSE Ret([kind |-> "repr", v |-> response])

\* What the outside world does during one call: the model's answer to the
\* analysis prompt (llm, a), to a second prompt (llm2), and the crawl.
Envs ==
    {e \in [llm : LLMOutcomes, a : Analyses, llm2 : LLMOutcomes,
            crawl : {"ok", "fail"}] :
        e.llm = "fail" => e.a = CHOOSE x \in Analyses : TRUE}

\* Line 132: the agent's answer out is formatted; made are the calls so far.
FormatAgentOutput(intent, out, made) ==
    IF ~out.res.ok THEN [res |-> out.res, calls |-> made \o out.calls]
    ELSE [res |-> FormatResponse(intent, out.res.v), calls |-> made \o out.calls]

\* Lines 130-132 for a registered agent: only job_search and cover_letter
\* are given the Supervisor's resume_path.
CallAgent(d, intent, query, resume_path, env) ==
    FormatAgentOutput(
        intent,
        IF intent = "job_search"
        THEN JobSearchProcess(query, resume_path, env.llm)
        ELSE CoverLetterProcess(query, resume_path,
                                IF resume_path = None THEN "absent" ELSE d[resume_path],
                                env.llm, env.a, env.llm2),
        <<Call(intent, "process", query, resume_path)>>)

\* _process_with_agent(intent, query): [res, calls].
ProcessWithAgent(s, d, intent, query, env) ==
    IF intent \notin RegisteredAgents
    THEN [res |-> Raise("KeyError", "'" \o intent \o "'"), calls |-> << >>]
    ELSE CallAgent(d, intent, query,
                   IF intent \in {"job_search", "cover_letter"}
                   THEN s.resume_path ELSE None,
                   env)

\* The record process_query returns when an exception e was caught.
ErrorEnvelope(intent, e) ==
    IF e.exc = "KeyError"
    THEN [intent |-> intent, response |-> Str("Agent not available."),
          error |-> Str("Agent missing."), agent |-> None]
    ELSE [intent |-> intent, response |-> Str("An error occurred."),
          error |-> Str(e.msg), agent |-> None]

\* str.capitalize() of the intents that have an agent, plus "Agent".
AgentName(intent) ==
    CASE intent = "job_search" -> "Job_searchAgent"
      [] intent = "cover_letter" -> "Cover_letterAgent"
      [] intent = "resume" -> "ResumeAgent"
      [] OTHER -> intent \o "Agent"

\* Lines 99-116 around a call r = [res, calls] made for the intent: the
\* record returned on success, the error envelope when the call raised.
Guarded(intent, agent, r) ==
    IF r.res.ok
    THEN [ret |-> [intent |-> intent, response |-> r.res.v, agent |-> agent],
          calls |-> r.calls, raised |-> << >>]
    ELSE [ret |-> ErrorEnvelope(intent, r.res), calls |-> r.calls,
          raised |-> <<r.res>>]

\* A dispatch whose "unknown" branch is missing: the query goes on to
\* _process_with_agent.
DispatchNoUnknownBranch(s, d, intent, query, env) ==
    IF intent = "research"
    THEN Guarded(intent, "ScrapyWebResearchAgent",
                 [res |-> RunResearch(env.crawl),
                  calls |-> <<Call("web_researcher", "run_research", query, None)>>])
    ELSE Guarded(intent, AgentName(intent),
                 ProcessWithAgent(s, d, intent, query, env))

\* Lines 99-116 of process_query for the classified intent.
Dispatch(s, d, intent, query, env) ==
    IF intent = "research"
    THEN Guarded(intent, "ScrapyWebResearchAgent",
                 [res |-> RunResearch(env.crawl),
                  calls |-> <<Call("web_researcher", "run_research", query, None)>>])
    ELSE IF intent = "unknown"
    THEN [ret |-> [intent |-> "unknown",
                   response |-> Str("Please clarify your query."),
                   agent |-> None],
          calls |-> << >>, raised |-> << >>]
    ELSE Guarded(intent, AgentName(intent),
                 ProcessWithAgent(s, d, intent, query, env))

\* process_query(query): the record returned, the agent calls made and the
\* exception that was caught on the way (<< >> when none was raised).
ProcessQuery(s, d, query, env) ==
    Dispatch(s, d, ClassifyIntent(query), query, env)

-----------------------------------------------------------------------------
(* What the claims about the classifier speak of, stated without the       *)
(* classifier: the intents one of whose keywords occurs in the query,      *)
(* letter case ignored.                                                    *)

Intents == {IntentOrder[n] : n \in 1..Len(IntentOrder)}

\* Keyword kw stands at position i of q, upper or lower case.
OccursAt(q, kw, i) ==
    /\ i >= 1
    /\ i + Len(kw) - 1 <= Len(q)
    /\ \A j \in 1..Len(kw) : LowerChar(q[i + j - 1]) = kw[j]

KeywordIntents(q) ==
    {intent \in Intents :
        \E k \in 1..Len(intents_mapping[intent]) :
            \E i \in 1..Len(q) : OccursAt(q, intents_mapping[intent][k], i)}

TableIndex(intent) == CHOOSE n \in 1..Len(IntentOrder) : IntentOrder[n] = intent

\* C2: _classify_intent is total: a query holding keywords of exactly one
\* intent (in any letter case) is classified as that intent, a query holding
\* no keyword as "unknown", and every query gets one of the five values.
C2_ExactlyOneIntentOrUnknown ==
    fout # << >> =>
        LET I == KeywordIntents(fin.query)
        IN /\ fout[1] \in Intents \cup {"unknown"}
           /\ Cardinality(I) = 1 => fout[1] \in I
           /\ I = {} => fout[1] = "unknown"

\* An upper-case query with keywords of the resume table only was classified.
C2_Witness ==
    /\ fout = <<"resume">>
    /\ KeywordIntents(fin.query) = {"resume"}
    /\ fin.query # Lower(fin.query)

\* C3: a query holding keywords of two or more intents is classified as the
\* one that comes first in the table order job_search, cover_letter, resume,
\* research, wherever the keywords stand in the query.
C3_FirstInTableOrderWins ==
    fout # << >> =>
        LET I == KeywordIntents(fin.query)
        IN Cardinality(I) >= 2 =>
              /\ fout[1] \in I
              /\ \A other \in I : TableIndex(fout[1]) <= TableIndex(other)

\* A query with "learn" (research) standing before "job" was classified
\* job_search.
C3_Witness ==
    /\ fout = <<"job_search">>
    /\ "research" \in KeywordIntents(fin.query)
    /\ \E i \in 1..Len(fin.query), j \in 1..Len(fin.query) :
          /\ j < i
          /\ OccursAt(fin.query, <<"j","o","b">>, i)
          /\ OccursAt(fin.query, <<"l","e","a","r","n">>, j)

-----------------------------------------------------------------------------
(* The Supervisor driven through its methods: the specification SupSpec.   *)

\* The names under which a browser uploads a file.
UploadNames == {"a.pdf", "../a.pdf", "notes.txt", ""}

\* werkzeug's secure_filename: path separators and leading dots are dropped.
SecureFilename(name) == IF name = "../a.pdf" THEN "a.pdf" ELSE name

\* os.path.join(UPLOAD_FOLDER, filename)
UploadPath(filename) == "uploads/" \o filename

\* The files of the upload folder.
Paths == {UploadPath(SecureFilename(n)) : n \in UploadNames \ {""}}

\* What the outside world does during a call that only analyzes a resume.
AnalysisEnvs == {[llm |-> e.llm, a |-> e.a] : e \in Envs}

\* The queries put to the Supervisor.

SupQueries ==
    { << >>,
      <<"h","e","l","l","o">>,
      <<"j","o","b">>,
      <<"f","i","n","d"," ","m","e"," ","a"," ","s","o","f","t","w","a","r","e",
        " ","e","n","g","i","n","e","e","r"," ","j","o","b">>,
      <<"c","o","v","e","r"," ","l","e","t","t","e","r">>,
      <<" ","L","e","t","t","e","r"," ">>,
      <<"r","e","s","u","m","e">>,
      <<"C","V">>,
      <<"l","e","a","r","n">>,
      <<"r","e","s","u","m","e"," ","j","o","b">> }

NoRequest == [op |-> "none"]

SupInit ==
    /\ disk = [p \in Paths |-> "absent"]
    /\ sup = SupervisorInit
    /\ calls = << >>
    /\ req = NoRequest
    /\ resp = NoRequest
    /\ session = None /\ fin = None /\ fout = << >>

\* A file is written to the upload folder.
FileSaved(p, kind) ==
    /\ disk' = [disk EXCEPT ![p] = kind]
    /\ req' = [op |-> "file_saved"]
    /\ resp' = NoRequest
    /\ calls' = << >>
    /\ UNCHANGED <<session, sup, fin, fout>>

\* A file is removed from the upload folder.
FileRemoved(p) ==
    /\ disk[p] # "absent"
    /\ disk' = [disk EXCEPT ![p] = "absent"]
    /\ req' = [op |-> "file_removed"]
    /\ resp' = NoRequest
    /\ calls' = << >>
    /\ UNCHANGED <<session, sup, fin, fout>>

\* The state after a direct call of set_resume that behaved as r.
SetResumeDone(p, r) ==
    /\ sup' = r.sup
    /\ calls' = r.calls
    /\ req' = [op |-> "set_resume", path |-> p, before |-> sup]
    /\ resp' = r.res
    /\ UNCHANGED <<disk, session, fin, fout>>

\* job_assistant.set_resume(p)
SupSetResume(p, env) == SetResumeDone(p, SetResume(sup, disk, p, env.llm, env.a))

\* The state after a direct call of process_query that behaved as r.
ProcessQueryDone(q, r) ==
    /\ calls' = r.calls
    /\ req' = [op |-> "process_query", query |-> q,
               resume_path |-> sup.resume_path, raised |-> r.raised]
    /\ resp' = r.ret
    /\ UNCHANGED <<disk, session, sup, fin, fout>>

\* job_assistant.process_query(q)
SupProcessQuery(q, env) == ProcessQueryDone(q, ProcessQuery(sup, disk, q, env))

SupNext ==
    \/ \E p \in Paths, kind \in {"pdf", "corrupt"} : FileSaved(p, kind)
    \/ \E p \in Paths : FileRemoved(p)
    \/ \E p \in Paths, env \in Envs : SupSetResume(p, env)
    \/ \E q \in SupQueries, env \in Envs : SupProcessQuery(q, env)

SupSpec == SupInit /\ [][SupNext]_vars

\* C4: a query classified "unknown" is answered with the clarification
\* record and no agent (and no model) is called for it.
C4_UnknownCallsNoAgent ==
    (req.op = "process_query" /\ KeywordIntents(req.query) = {}) =>
        /\ resp = [intent |-> "unknown",
                   response |-> Str("Please clarify your query."),
                   agent |-> None]
        /\ calls = << >>

\* A query without any keyword was processed while a resume was set.
C4_Witness ==
    /\ req.op = "process_query"
    /\ req.query = <<"h","e","l","l","o">>
    /\ resp.intent = "unknown"
    /\ sup.resume_path # None

\* C5 (as claimed): whatever exception is caught during process_query,
\* KeyError included, the record returned carries the classified intent,
\* error = str(exception) and agent None.
C5_ErrorIsStringifiedException ==
    (req.op = "process_query" /\ req.raised # << >>) =>
        /\ resp.intent = ClassifyIntent(req.query)
        /\ "error" \in DOMAIN resp
        /\ resp.error = Str(req.raised[1].msg)
        /\ resp.agent = None

\* The agent key the dispatch of an intent is meant to reach.
AgentOfIntent(intent) ==
    CASE intent = "job_search" -> "job_search"
      [] intent = "cover_letter" -> "cover_letter"
      [] intent = "resume" -> "resume_analyzer"

\* The calls of process() among the calls of the last operation.
ProcessCalls == SelectSeq(calls, LAMBDA c : c.method = "process")

\* C6 (as claimed): a job_search, cover_letter or resume query makes exactly
\* one call of process() of that intent's registered agent, with the query
\* and the Supervisor's current resume_path.
C6_DispatchCallsAgentOnce ==
    (req.op = "process_query"
        /\ ClassifyIntent(req.query) \in {"job_search", "cover_letter", "resume"}) =>
        /\ Len(ProcessCalls) = 1
        /\ ProcessCalls[1].agent \in
              {AgentOfIntent(ClassifyIntent(req.query)), ClassifyIntent(req.query)}
        /\ ProcessCalls[1].query = req.query
        /\ ProcessCalls[1].resume_path = req.resume_path

-----------------------------------------------------------------------------
(* _format_response applied to an agent's answer: the specification        *)
(* FormatSpec.  match_score is kept in half points (180 is 90.0).          *)

ListingPool ==
  { [title |-> "Clerk", company |-> "Acme", location |-> "Oslo",
     match_score |-> 20, requirements |-> <<Str("filing")>>],
    [title |-> "Backend Engineer", company |-> "Initech", location |-> "Remote",
     match_score |-> 180, requirements |-> <<Str("python"), Str("sql")>>],
    [title |-> "Data Analyst", company |-> "Globex", location |-> "Berlin",
     match_score |-> 100, requirements |-> << >>],
    [title |-> "Platform Engineer", company |-> "Hooli", location |-> "Remote",
     match_score |-> 181, requirements |-> <<Str("go")>>],
    \* a listing without a title
    [company |-> "Nameless", location |-> "Paris",
     match_score |-> 140, requirements |-> << >>] }

RECURSIVE ListingSeqs(_)
ListingSeqs(n) ==
    IF n = 0 THEN {<< >>}
    ELSE LET P == ListingSeqs(n - 1)
         IN P \cup {Append(p, l) : p \in P, l \in ListingPool}

JobSearchResponses ==
    {[status |-> "success",
      results |-> [listings |-> L, total_found |-> Len(L)]] :
        L \in ListingSeqs(MaxListings)}

OtherResponses ==
    { [status |-> "error", message |-> Str("Resume path is required for job search")],
      [status |-> "error"],
      [status |-> "no_results"],
      [status |-> "success",
       content |-> Join("\n\n", <<Str("a"), Str("b"), Str("c"), Str("d")>>)],
      [response |-> Str("general advice")] }

FormatInputs ==
    [op : {"format"}, intent : {"job_search"}, response : JobSearchResponses]
    \cup [op : {"format"}, intent : Intents, response : OtherResponses]

FormatInit ==
    /\ IdleWeb
    /\ fin \in FormatInputs
    /\ fout = << >>

Format ==
    /\ fout = << >>
    /\ fout' = <<FormatResponse(fin.intent, fin.response)>>
    /\ UNCHANGED <<fin, disk, session, sup, calls, req, resp>>

FormatNext == Format

FormatSpec == FormatInit /\ [][FormatNext]_vars

\* The listings of the job_search answer that was formatted into blocks.
ListingsPrinted ==
    /\ fout # << >>
    /\ fin.intent = "job_search"
    /\ "results" \in DOMAIN fin.response
    /\ fout[1].ok
    /\ fout[1].v.kind = "joined"

\* C10 (as claimed): the blocks of the formatted job_search response stand
\* in descending order of match score.
C10_FormattedDescending ==
    ListingsPrinted =>
        \A i \in 1..Len(fout[1].v.v), j \in 1..Len(fout[1].v.v) :
            i < j => fout[1].v.v[i].MatchScore >= fout[1].v.v[j].MatchScore

\* C10 (amended): the formatted job_search response has one block per
\* listing, in the order in which the agent returned the listings.
C10_FormattedKeepsAgentOrder ==
    ListingsPrinted =>
        LET listings == fin.response.results.listings
        IN /\ Len(fout[1].v.v) = Len(listings)
           /\ \A i \in 1..Len(listings) :
                 /\ fout[1].v.v[i].Position = listings[i].title
                 /\ fout[1].v.v[i].Company = listings[i].company

\* Listings with the scores 10, 90, 50 were formatted.
C10_Witness ==
    /\ ListingsPrinted
    /\ Len(fin.response.results.listings) = 3
    /\ fin.response.results.listings[1].match_score = 20
    /\ fin.response.results.listings[2].match_score = 180
    /\ fin.response.results.listings[3].match_score = 100

-----------------------------------------------------------------------------
(* The Flask routes (app/routes.py) and the forms (app/forms.py).          *)

\* The browser session that is followed; what other browsers do to the shared
\* upload folder and to the shared Supervisor is OtherBrowserUpload.
Sessions == {"A"}

\* A session key holds << >> when absent and <<value>> when present.
EmptySession ==
    [uploaded_resume_path |-> << >>, resume_insights |-> << >>,
     resume_filepath |-> << >>, analysis_started |-> << >>,
     resume_path |-> << >>]

\* session.get(key) for a key that holds a str: None when absent.
SessionGet(sess, key) == IF sess[key] = << >> THEN None ELSE sess[key][1]

\* The extension FileAllowed looks at: what follows the last dot, lower-cased.
Extension(name) ==
    CASE name \in {"a.pdf", "../a.pdf"} -> "pdf"
      [] name = "notes.txt" -> "txt"
      [] OTHER -> ""

\* ResumeUploadForm.validate_on_submit(): a CSRF token, a file (FileRequired)
\* and a pdf extension (FileAllowed(['pdf'])).
ResumeUploadFormValid(csrf, name) == csrf /\ name # "" /\ Extension(name) = "pdf"

\* ChatForm.validate_on_submit(): a CSRF token and a query that is not blank
\* (DataRequired).
ChatFormValid(csrf, query) == csrf /\ Strip(query) # << >>

\* store_resume_data: the path is stored, then the insights as JSON text;
\* json.dumps may raise between the two.
StoreResumeData(sess, filepath, resume_insights) ==
    IF JsonDumps(resume_insights) = JsonTypeError
    THEN [sess |-> [sess EXCEPT !.uploaded_resume_path = <<filepath>>],
          res |-> Raise("TypeError", "Object is not JSON serializable")]
    ELSE [sess |-> [sess EXCEPT !.uploaded_resume_path = <<filepath>>,
                                !.resume_insights = <<JsonDumps(resume_insights)>>],
          res |-> Ret(None)]

\* get_resume_data: <<filepath, insights>>
GetResumeData(sess) ==
    <<SessionGet(sess, "uploaded_resume_path"),
      IF sess.resume_insights = << >> THEN PyNone
      ELSE JsonLoads(sess.resume_insights[1])>>

Redirect(to) == [status |-> 302, kind |-> "redirect", to |-> to]
Render(template) == [status |-> 200, kind |-> "render", template |-> template]
Json(status, body) == [status |-> status, kind |-> "json", body |-> body]
Unhandled(e) == [status |-> 500, kind |-> "unhandled", exc |-> e.exc]

\* Lines 56-68 of index, given how set_resume behaved (r) and how
\* store_resume_data would behave on its result (st).
IndexStored(s, name, filepath, r, st) ==
    /\ sup' = r.sup
    /\ calls' = r.calls
    /\ session' = [session EXCEPT ![s] = IF r.res.ok THEN st.sess ELSE @]
    /\ resp' = IF r.res.ok /\ st.res.ok THEN Redirect("main.chat_interface")
               ELSE Render("index.html")
    /\ req' = [op |-> "index", s |-> s, name |-> name, path |-> filepath,
               returned |-> r.res.ok]

IndexAnalyzed(s, name, filepath, r) ==
    IndexStored(s, name, filepath, r,
                IF r.res.ok THEN StoreResumeData(session[s], filepath, r.res.v)
                ELSE [sess |-> session[s], res |-> r.res])

\* POST / with the upload form; the file holds content of some kind and
\* the outside world behaves as some env.
IndexPost(s, csrf, name) ==
    IF ~ResumeUploadFormValid(csrf, name)
    THEN /\ resp' = Render("index.html")
         /\ req' = [op |-> "index", s |-> s, name |-> name, path |-> None,
                    returned |-> FALSE]
         /\ calls' = << >>
         /\ UNCHANGED <<disk, session, sup, fin, fout>>
    ELSE \E kind \in {"pdf", "corrupt"}, env \in AnalysisEnvs :
         /\ disk' = [disk EXCEPT ![UploadPath(SecureFilename(name))] = kind]
         /\ IndexAnalyzed(s, name, UploadPath(SecureFilename(name)),
                          SetResume(sup, disk', UploadPath(SecureFilename(name)),
                                    env.llm, env.a))
         /\ UNCHANGED <<fin, fout>>

\* Lines 130-148 of upload_resume, given how set_resume behaved (r) and how
\* store_resume_data would behave on its result (st).
UploadStored(s, name, filepath, r, st) ==
    /\ sup' = r.sup
    /\ calls' = r.calls
    /\ session' = [session EXCEPT ![s] =
                      IF r.res.ok THEN st.sess
                      ELSE [@ EXCEPT !.resume_filepath = <<filepath>>,
                                     !.analysis_started = <<"t">>]]
    /\ resp' = IF r.res.ok /\ st.res.ok
               THEN Json(200, [success |-> TRUE,
                               message |-> "Resume uploaded successfully"])
               ELSE Json(200, [success |-> FALSE,
                               error |-> IF r.res.ok THEN st.res.msg ELSE r.res.msg])
    /\ req' = [op |-> "upload_resume", s |-> s, name |-> name, path |-> filepath,
               returned |-> r.res.ok]

UploadAnalyzed(s, name, filepath, r) ==
    UploadStored(s, name, filepath, r,
                 IF r.res.ok
                 THEN StoreResumeData(
                          [session[s] EXCEPT !.resume_filepath = <<filepath>>,
                                             !.analysis_started = <<"t">>],
                          filepath, r.res.v)
                 ELSE [sess |-> session[s], res |-> r.res])

\* POST /upload_resume, with or without a file part named "resume"; the
\* file holds content of some kind and the outside world behaves as some env.
UploadResume(s, hasFile, name) ==
    IF ~hasFile \/ name = ""
    THEN /\ resp' = Json(200, [success |-> FALSE,
                               error |-> IF ~hasFile THEN "No resume file provided."
                                         ELSE "No selected file."])
         /\ req' = [op |-> "upload_resume", s |-> s, name |-> name,
                    path |-> None, returned |-> FALSE]
         /\ calls' = << >>
         /\ UNCHANGED <<disk, session, sup, fin, fout>>
    ELSE \E kind \in {"pdf", "corrupt"}, env \in AnalysisEnvs :
         /\ disk' = [disk EXCEPT ![UploadPath(SecureFilename(name))] = kind]
         /\ UploadAnalyzed(s, name, UploadPath(SecureFilename(name)),
                           SetResume(sup, disk', UploadPath(SecureFilename(name)),
                                     env.llm, env.a))
         /\ UNCHANGED <<fin, fout>>

\* A chat page that stores the insights of its own set_resume call in the
\* session.
ChatReinitializedStored(s, r) ==
    /\ sup' = r.sup
    /\ calls' = r.calls
    /\ resp' = IF r.res.ok THEN Render("chat_interface.html")
               ELSE IF r.res.exc = "FileNotFoundError" THEN Redirect("main.index")
               ELSE Unhandled(r.res)
    /\ session' = [session EXCEPT ![s] =
                      IF ~r.res.ok /\ r.res.exc = "FileNotFoundError"
                      THEN [@ EXCEPT !.uploaded_resume_path = << >>,
                                     !.resume_insights = << >>]
                      ELSE IF r.res.ok
                      THEN StoreResumeData(@, r.sup.resume_path, r.res.v).sess
                      ELSE @]

\* Lines 86-106 of chat_interface, given how set_resume behaved (r): only a
\* FileNotFoundError is caught.
ChatReinitialized(s, r) ==
    /\ sup' = r.sup
    /\ calls' = r.calls
    /\ resp' = IF r.res.ok THEN Render("chat_interface.html")
               ELSE IF r.res.exc = "FileNotFoundError" THEN Redirect("main.index")
               ELSE Unhandled(r.res)
    /\ session' = [session EXCEPT ![s] =
                      IF ~r.res.ok /\ r.res.exc = "FileNotFoundError"
                      THEN [@ EXCEPT !.uploaded_resume_path = << >>,
                                     !.resume_insights = << >>]
                      ELSE @]

\* A chat page that trusts the session and does not look at the disk.
ChatInterfaceNoFileCheck(s, env) ==
    /\ req' = [op |-> "chat_interface", s |-> s]
    /\ IF GetResumeData(session[s])[1] \in {None, ""}
          \/ ~Truthy(GetResumeData(session[s])[2])
       THEN /\ resp' = Redirect("main.index")
            /\ calls' = << >>
            /\ UNCHANGED <<session, sup>>
       ELSE /\ resp' = Render("chat_interface.html")
            /\ calls' = << >>
            /\ UNCHANGED <<session, sup>>
    /\ UNCHANGED <<disk, fin, fout>>

\* GET /chat
ChatInterface(s, env) ==
    /\ req' = [op |-> "chat_interface", s |-> s]
    /\ IF GetResumeData(session[s])[1] \in {None, ""}
          \/ ~Truthy(GetResumeData(session[s])[2])
       THEN /\ resp' = Redirect("main.index")
            /\ calls' = << >>
            /\ UNCHANGED <<session, sup>>
       ELSE ChatReinitialized(s,
                SetResume(sup, disk, GetResumeData(session[s])[1], env.llm, env.a))
    /\ UNCHANGED <<disk, fin, fout>>

\* GET /check_analysis_status; late says whether more than 30 seconds have
\* passed since analysis_started.
CheckAnalysisStatus(s, late) ==
    /\ resp' = IF SessionGet(session[s], "resume_filepath") \in {None, ""}
               THEN Json(200, [success |-> FALSE,
                               error |-> "No resume found in session"])
               ELSE IF session[s].resume_insights # << >>
               THEN Json(200, [success |-> TRUE, message |-> "Analysis complete"])
               ELSE IF late \/ session[s].analysis_started = << >>
               THEN Json(200, [success |-> FALSE, error |-> "Analysis timeout"])
               ELSE Json(200, [success |-> FALSE, message |-> "Analysis in progress"])
    /\ req' = [op |-> "check_analysis_status", s |-> s]
    /\ calls' = << >>
    /\ UNCHANGED <<disk, session, sup, fin, fout>>

NullText == [kind |-> "null"]

\* The body of the 500 answer of chat_message for the exception e.
ChatError(e) ==
    Json(500, [error |-> Str(e.msg),
               response |-> Str("An error occurred while processing your request."),
               intent |-> "error", agent |-> None])

\* Lines 206-221 of chat_message once set_resume went through: a query with
\* "job" in it goes to the Supervisor, any other to chat_agent, a name the
\* module never defines.
ChatAnswered(query, r, pq) ==
    IF ~r.res.ok
    THEN [resp |-> ChatError(r.res), calls |-> r.calls, asked |-> FALSE,
          exc |-> <<r.res.exc>>]
    ELSE IF Contains(Lower(query), <<"j","o","b">>)
    THEN [resp |-> Json(200, [response |-> pq.ret.response,
                              intent |-> pq.ret.intent,
                              agent |-> pq.ret.agent,
                              error |-> Get(pq.ret, "error", NullText)]),
          calls |-> r.calls \o pq.calls, asked |-> TRUE,
          exc |-> [i \in 1..Len(pq.raised) |-> pq.raised[i].exc]]
    ELSE [resp |-> ChatError(Raise("NameError", "name 'chat_agent' is not defined")),
          calls |-> r.calls, asked |-> FALSE, exc |-> <<"NameError">>]

\* Lines 203-221, given how set_resume behaved (r).
ChatWithResume(s, query, r, env) ==
    /\ sup' = r.sup
    /\ resp' = ChatAnswered(query, r, ProcessQuery(r.sup, disk, query, env)).resp
    /\ calls' = ChatAnswered(query, r, ProcessQuery(r.sup, disk, query, env)).calls
    /\ req' = [op |-> "chat_message", s |-> s, query |-> query, valid |-> TRUE,
               asked |-> ChatAnswered(query, r,
                             ProcessQuery(r.sup, disk, query, env)).asked,
               exc |-> ChatAnswered(query, r,
                           ProcessQuery(r.sup, disk, query, env)).exc]

\* A chat endpoint without the check of lines 200-201 and without the
\* re-initialisation of line 204.
ChatMessageNoResumeCheck(s, csrf, query) ==
    /\ IF ~ChatFormValid(csrf, query)
       THEN /\ resp' = Json(400, [error |-> "Invalid form submission"])
            /\ req' = [op |-> "chat_message", s |-> s, query |-> query,
                       valid |-> FALSE, asked |-> FALSE, exc |-> << >>]
            /\ calls' = << >>
            /\ UNCHANGED sup
       ELSE \E env \in Envs :
                ChatWithResume(s, query,
                               [sup |-> sup, calls |-> << >>, res |-> Ret(None)], env)
    /\ UNCHANGED <<disk, session, fin, fout>>

\* A chat endpoint whose try block has no except clause.
ChatMessageUncaught(s, csrf, query) ==
    /\ IF ~ChatFormValid(csrf, query)
       THEN /\ resp' = Json(400, [error |-> "Invalid form submission"])
            /\ req' = [op |-> "chat_message", s |-> s, query |-> query,
                       valid |-> FALSE, asked |-> FALSE, exc |-> << >>]
       ELSE /\ resp' = Unhandled(Raise("ValueError",
                           "No resume loaded. Please upload your resume first."))
            /\ req' = [op |-> "chat_message", s |-> s, query |-> query,
                       valid |-> TRUE, asked |-> FALSE, exc |-> <<"ValueError">>]
    /\ calls' = << >>
    /\ UNCHANGED <<sup, disk, session, fin, fout>>

\* POST /chat/message; past the check of the session the outside world
\* behaves as some env.
ChatMessage(s, csrf, query) ==
    /\ IF ~ChatFormValid(csrf, query)
       THEN /\ resp' = Json(400, [error |-> "Invalid form submission"])
            /\ req' = [op |-> "chat_message", s |-> s, query |-> query,
                       valid |-> FALSE, asked |-> FALSE, exc |-> << >>]
            /\ calls' = << >>
            /\ UNCHANGED sup
       ELSE IF SessionGet(session[s], "resume_path") \in {None, ""}
       THEN /\ resp' = ChatError(Raise("ValueError",
                           "No resume loaded. Please upload your resume first."))
            /\ req' = [op |-> "chat_message", s |-> s, query |-> query,
                       valid |-> TRUE, asked |-> FALSE, exc |-> <<"ValueError">>]
            /\ calls' = << >>
            /\ UNCHANGED sup
       ELSE \E env \in Envs :
                ChatWithResume(s, query,
                    SetResume(sup, disk, SessionGet(session[s], "resume_path"),
                              env.llm, env.a),
                    env)
    /\ UNCHANGED <<disk, session, fin, fout>>

\* POST /upload_resume sent by a browser whose session is not followed: the
\* file is saved and the shared job_assistant analyzes it.
OtherBrowserUpload(name, kind, env) ==
    /\ name # ""
    /\ disk' = [disk EXCEPT ![UploadPath(SecureFilename(name))] = kind]
    /\ sup' = SetResume(sup, disk', UploadPath(SecureFilename(name)),
                        env.llm, env.a).sup
    /\ calls' = << >>
    /\ req' = [op |-> "other_browser"]
    /\ resp' = NoRequest
    /\ UNCHANGED <<session, fin, fout>>

\* The queries typed into the chat page.
JobQuery ==
    <<"f","i","n","d"," ","m","e"," ","a"," ","s","o","f","t","w","a","r","e",
      " ","e","n","g","i","n","e","e","r"," ","j","o","b">>

ChatQueries == {<<" ">>, <<"h","e","l","l","o">>, JobQuery}

Init ==
    /\ disk = [p \in Paths |-> "absent"]
    /\ session = [s \in Sessions |-> EmptySession]
    /\ sup = SupervisorInit
    /\ calls = << >>
    /\ req = NoRequest
    /\ resp = NoRequest
    /\ fin = None
    /\ fout = << >>

Next ==
    \/ \E p \in Paths : FileRemoved(p)
    \/ \E name \in UploadNames, kind \in {"pdf", "corrupt"}, env \in AnalysisEnvs :
            OtherBrowserUpload(name, kind, env)
    \/ \E s \in Sessions, csrf \in BOOLEAN, name \in UploadNames :
            IndexPost(s, csrf, name)
    \/ \E s \in Sessions, hasFile \in BOOLEAN, name \in UploadNames :
            UploadResume(s, hasFile, name)
    \/ \E s \in Sessions, env \in AnalysisEnvs : ChatInterface(s, env)
    \/ \E s \in Sessions, late \in BOOLEAN : CheckAnalysisStatus(s, late)
    \/ \E s \in Sessions, csrf \in BOOLEAN, query \in ChatQueries :
            ChatMessage(s, csrf, query)

Spec == Init /\ [][Next]_vars

-----------------------------------------------------------------------------
(* Claims about the routes, checked under Spec.                            *)

\* The session holds a resume: a stored path and stored insights.
HoldsResume(sess) ==
    /\ sess.uploaded_resume_path # << >>
    /\ sess.resume_insights # << >>

\* C1 (as claimed): when POST /upload_resume of a valid PDF has answered
\* success=true and the session holds insights, the valid POST /chat/message
\* that follows with "find me a software engineer job" answers with the
\* intent "job_search".
C1_ChatAfterUploadIsJobSearch ==
    [][(/\ req.op = "upload_resume"
        /\ resp.kind = "json"
        /\ resp.body.success
        /\ req.path \in Paths
        /\ disk[req.path] = "pdf"
        /\ session[req.s].resume_insights # << >>
        /\ req'.op = "chat_message"
        /\ req'.s = req.s
        /\ req'.valid
        /\ req'.query = JobQuery)
       => resp'.body.intent = "job_search"]_vars

\* C7: a valid POST /chat/message in a session without a resume is answered
\* with an error, and neither process_query nor any agent is called.
C7_ChatWithoutResumeCallsNothing ==
    (/\ req.op = "chat_message"
     /\ req.valid
     /\ ~HoldsResume(session[req.s]))
    => /\ resp.status >= 400
       /\ "error" \in DOMAIN resp.body
       /\ ~req.asked
       /\ calls = << >>

\* A valid job query was posted in a session that never saw an upload.
C7_Witness ==
    /\ req.op = "chat_message"
    /\ req.valid
    /\ req.query = JobQuery
    /\ session[req.s] = EmptySession
    /\ resp.status = 500

\* The file of the session's resume is on disk.
ResumeOnDisk(sess) ==
    /\ SessionGet(sess, "uploaded_resume_path") \in Paths
    /\ disk[SessionGet(sess, "uploaded_resume_path")] # "absent"

\* C8: GET /chat renders the chat page only if the session holds a path and
\* insights and the file is on disk; in every other case it redirects to the
\* index page.
C8_ChatRendersOnlyWithResumeOnDisk ==
    [][\A s \in Sessions :
          (req'.op = "chat_interface" /\ req'.s = s)
          => /\ (resp'.kind = "render")
                  => (HoldsResume(session[s]) /\ ResumeOnDisk(session[s]))
             /\ ~(HoldsResume(session[s]) /\ ResumeOnDisk(session[s]))
                  => resp' = Redirect("main.index")]_vars

\* The chat page was rendered for a session whose resume is on disk.
C8_Witness ==
    /\ req.op = "chat_interface"
    /\ resp = Render("chat_interface.html")
    /\ HoldsResume(session[req.s])
    /\ ResumeOnDisk(session[req.s])

\* C9: when set_resume returned the record R during an upload of path,
\* get_resume_data() afterwards returns (path, R).
C9_SessionHoldsInsightsUnchanged ==
    (req.op \in {"index", "upload_resume"} /\ req.returned)
    => GetResumeData(session[req.s]) = <<req.path, sup.resume_insights>>

\* An upload stored the insights of a successful analysis.
C9_Witness ==
    /\ req.op = "upload_resume"
    /\ req.returned
    /\ sup.resume_insights \in {ResumeInsights(a) : a \in Analyses}
    /\ GetResumeData(session[req.s])[2] = sup.resume_insights

C16_ChatRelayedToSupervisor ==
    (req.op = "chat_message" /\ req.valid /\ HoldsResume(session[req.s]))
    => /\ req.asked
       /\ resp.status = 200

\* C17 (as claimed): the intent of a JSON answer of POST /chat/message is
\* one of job_search, cover_letter, resume, research, unknown.
C17_ChatIntentInEnum ==
    (req.op = "chat_message" /\ resp.kind = "json" /\ "intent" \in DOMAIN resp.body)
    => resp.body.intent \in Intents \cup {"unknown"}

\* C18 (as claimed): an upload of a file that is not a PDF saves nothing,
\* runs no analysis and leaves the session as it was.
C18_OnlyPdfUploadsHaveEffects ==
    [][(req'.op \in {"index", "upload_resume"} /\ Extension(req'.name) # "pdf")
       => /\ disk' = disk
          /\ session' = session
          /\ sup' = sup
          /\ calls' = << >>]_vars

\* The requests that upload a resume.
UploadOps == {"index", "upload_resume"}

\* C22 (as claimed): once a session holds stored insights, no request other
\* than an upload changes or removes them.
C22_OnlyUploadsChangeInsights ==
    [][\A s \in Sessions :
          (session[s].resume_insights # << >> /\ req'.op \notin UploadOps)
          => session'[s].resume_insights = session[s].resume_insights]_vars

\* GET /chat of session s will find the stored resume file missing.
ChatFindsFileMissing(s) ==
    /\ req'.op = "chat_interface"
    /\ HoldsResume(session[s])
    /\ ~ResumeOnDisk(session[s])

\* C22 (amended): once a session holds stored insights, a request other than
\* an upload leaves them unchanged, except that GET /chat removes them,
\* together with the stored path, when the stored file is no longer on disk.
C22_InsightsKeptUnlessFileMissing ==
    [][\A s \in Sessions :
          (session[s].resume_insights # << >> /\ req'.op \notin UploadOps)
          => IF ChatFindsFileMissing(s)
             THEN /\ session'[s].resume_insights = << >>
                  /\ session'[s].uploaded_resume_path = << >>
             ELSE session'[s].resume_insights = session[s].resume_insights]_vars

\* A status poll answered for a session that holds a resume.
C22_Witness ==
    /\ req.op = "check_analysis_status"
    /\ HoldsResume(session[req.s])
    /\ resp = Json(200, [success |-> TRUE, message |-> "Analysis complete"])

\* C26: in every session the keys uploaded_resume_path and resume_insights
\* are both present or both absent.
C26_PathAndInsightsPaired ==
    \A s \in Sessions :
        (session[s].uploaded_resume_path # << >>)
        <=> (session[s].resume_insights # << >>)

\* An upload whose analysis raised came after one that stored a resume.
C26_Witness ==
    /\ req.op = "upload_resume"
    /\ req.path # None
    /\ ~req.returned
    /\ HoldsResume(session[req.s])

-----------------------------------------------------------------------------
(* JobSearchAgent._match_jobs_to_analysis (agents/job_search.py:135-191).  *)

MaxJobs == 3

\* Raw listings as _search_jobs returns them.
JobPool ==
    { [title |-> t, company |-> "Acme", location |-> "Remote",
       url |-> "https://jobs.example/" \o t, description |-> "Build things",
       posted_date |-> "2024-01-01"] : t \in {"J1", "J2", "J3", "J4"} }

\* The sequences of at most n distinct raw listings.
RECURSIVE JobSeqs(_)
JobSeqs(n) ==
    IF n = 0 THEN {<< >>}
    ELSE LET P == JobSeqs(n - 1)
         IN P \cup UNION { {Append(p, j) : j \in {x \in JobPool :
                                     \A i \in 1..Len(p) : p[i] # x}} : p \in P }

\* What the model answers to the matching prompt of one job: the call
\* raises, or the text "Score: X, Matching Skills: [..], Missing Skills: [..]"
\* with the score X and the two lists of skills.
Replies ==
    { [kind |-> "raise"],
      [kind |-> "text", score |-> 90, matching |-> <<"python">>,
       missing |-> <<"go", "rust">>],
      [kind |-> "text", score |-> 50, matching |-> << >>, missing |-> << >>],
      [kind |-> "text", score |-> 90, matching |-> <<"python", "sql">>,
       missing |-> <<"go">>] }

\* "[a, b]".strip("[]").split(", ") of the part that holds the first item
\* of a list only: the first item, or the empty string for an empty list.
FirstItem(skills) == IF skills = << >> THEN <<"">> ELSE <<skills[1]>>

\* Lines 165-169: the reply is split at ", ".  A second matching skill
\* becomes parts[2], which holds no ": ", and indexing [1] raises.  Yields
\* << >> when the parsing raises.
ParseReply(reply) ==
    IF reply.kind = "raise" \/ Len(reply.matching) >= 2 THEN << >>
    ELSE <<[score |-> reply.score,
            matching_skills |-> FirstItem(reply.matching),
            missing_skills |-> FirstItem(reply.missing)]>>

\* Lines 171-181: the JobSearchResult of a job and its parsed reply.
JobSearchResult(job, parsed) ==
    [title |-> job.title, company |-> job.company, location |-> job.location,
     match_score |-> parsed.score, url |-> job.url,
     description |-> job.description, posted_date |-> job.posted_date,
     skill_matches |-> parsed.matching_skills,
     missing_skills |-> parsed.missing_skills]

\* A loop that gives up at the first job whose reply cannot be used.
RECURSIVE MatchedUntilFailure(_, _, _)
MatchedUntilFailure(jobs, replies, n) ==
    IF n > Len(jobs) \/ ParseReply(replies[n]) = << >> THEN << >>
    ELSE <<JobSearchResult(jobs[n], ParseReply(replies[n])[1])>>
         \o MatchedUntilFailure(jobs, replies, n + 1)

\* The loop of lines 143-186 from job n on: a job whose reply cannot be
\* parsed is skipped.
RECURSIVE MatchedFrom(_, _, _)
MatchedFrom(jobs, replies, n) ==
    IF n > Len(jobs) THEN << >>
    ELSE (IF ParseReply(replies[n]) = << >> THEN << >>
          ELSE <<JobSearchResult(jobs[n], ParseReply(replies[n])[1])>>)
         \o MatchedFrom(jobs, replies, n + 1)

\* d[k] on a PyDict: whether the key is there.
HasKey(d, k) == \E i \in 1..Len(d.v) : d.v[i][1] = PyStr(k)

\* A resume analysis with the keys _match_jobs_to_analysis reads.
SpacedAnalysis ==
    PyDict(<< <<PyStr("Current Profile"),
                PyDict(<< <<PyStr("Key Skills"), PyStrList(<<"python">>)>>,
                          <<PyStr("Experience Summary"), PyStr("five years")>> >>)>>,
              <<PyStr("Development Areas"),
                PyDict(<< <<PyStr("Skill Gaps"), PyDict(<< >>)>> >>)>> >>)

\* Matching whose sort puts the later of two equal scores first.
MatchJobsTiesReversed(jobs, resume_analysis, replies) ==
    LET m == MatchedFrom(jobs, replies, 1)
        r == SortedDesc([i \in 1..Len(m) |-> m[Len(m) + 1 - i]])
    IN Ret(r)

\* _match_jobs_to_analysis(jobs, resume_analysis), the model answering
\* job n with replies[n].
MatchJobsToAnalysis(jobs, resume_analysis, replies) ==
    IF ~HasKey(resume_analysis, "Current Profile")
    THEN Raise("KeyError", "'Current Profile'")
    ELSE IF ~HasKey(resume_analysis, "Development Areas")
    THEN Raise("KeyError", "'Development Areas'")
    ELSE IF ~HasKey(DictGet(resume_analysis, "Development Areas"), "Skill Gaps")
    THEN Raise("KeyError", "'Skill Gaps'")
    ELSE Ret(SortedDesc(MatchedFrom(jobs, replies, 1)))

-----------------------------------------------------------------------------
(* The agents called on their own: the specification AgentSpec.            *)

MatchInputs ==
    UNION { [op : {"match_jobs"}, jobs : {js},
             analysis : {SpacedAnalysis} \cup {ResumeInsights(a) : a \in Analyses},
             replies : [1..Len(js) -> Replies]] : js \in JobSeqs(MaxJobs) }

MatchJobs ==
    /\ fin.op = "match_jobs"
    /\ fout = << >>
    /\ fout' = <<MatchJobsToAnalysis(fin.jobs, fin.analysis, fin.replies)>>
    /\ UNCHANGED <<fin, disk, session, sup, calls, req, resp>>

\* The paths an agent is called with: none, an empty one, a file.
AgentPaths == {None, "", "uploads/a.pdf"}

AgentQueries == {<< >>, <<" ">>, <<" ","L","e","t","t","e","r"," ">>, JobQuery}

CoverLetterInputs ==
    {i \in [op : {"cover_letter_process"}, query : AgentQueries,
            resume_path : AgentPaths, kind : {"pdf", "corrupt", "absent"},
            llm : LLMOutcomes, a : Analyses, llm2 : LetterOutcomes] :
        i.llm = "fail" => i.a = CHOOSE x \in Analyses : TRUE}

\* process was called and answered r; fout[2] is what line 132 of the
\* Supervisor makes of the answer.
CoverLetterDone(r) ==
    /\ fout' = <<r.res, FormatAgentOutput("cover_letter", r, << >>).res>>
    /\ calls' = r.calls

CoverLetter ==
    /\ fin.op = "cover_letter_process"
    /\ fout = << >>
    /\ CoverLetterDone(CoverLetterProcess(fin.query, fin.resume_path, fin.kind,
                                          fin.llm, fin.a, fin.llm2))
    /\ UNCHANGED <<fin, disk, session, sup, req, resp>>

AnalyzeInputs ==
    {i \in [op : {"analyze_resume"}, kind : {"pdf", "corrupt", "absent"},
            llm : LLMOutcomes, a : Analyses] :
        i.llm = "fail" => i.a = CHOOSE x \in Analyses : TRUE}

Analyze ==
    /\ fin.op = "analyze_resume"
    /\ fout = << >>
    /\ fout' = <<AnalyzeResume(fin.kind, fin.llm, fin.a)>>
    /\ UNCHANGED <<fin, disk, session, sup, calls, req, resp>>

\* search_jobs(resume_path, query): the analysis is made, then
\* _get_search_preferences, which takes the analysis alone, is called with
\* the analysis and the query; the except clause of lines 248-255 turns the
\* TypeError, or an exception of the analyzer, into an error record.
SearchJobs(resume_path, query, kind, llm, a) ==
    IF ~AnalyzeResume(kind, llm, a).ok
    THEN Ret([status |-> "error",
              message |-> Str("Job search failed: " \o AnalyzeResume(kind, llm, a).msg)])
    ELSE Ret([status |-> "error",
              message |-> Str("Job search failed: _get_search_preferences() takes 2 positional arguments but 3 were given")])

\* process(query, resume_path) with the listing sources holding jobs.
JobSearchInputs ==
    [op : {"job_search_process"}, query : AgentQueries, resume_path : AgentPaths,
     llm : LLMOutcomes, jobs : JobSeqs(MaxJobs)]

JobSearchDone(r) ==
    /\ fout' = <<r.res>>
    /\ calls' = r.calls

JobSearch ==
    /\ fin.op = "job_search_process"
    /\ fout = << >>
    /\ JobSearchDone(JobSearchProcess(fin.query, fin.resume_path, fin.llm))
    /\ UNCHANGED <<fin, disk, session, sup, req, resp>>

MaxPages == 2

\* Pages the spider can be handed, with or without text in a content block.
PagePool ==
    { [url |-> "https://en.wikipedia.org/wiki/Python", title |-> "Python",
       content |-> <<"Python is a language">>],
      [url |-> "https://en.wikipedia.org/wiki/Go", title |-> "Go",
       content |-> << >>] }

RECURSIVE PageSeqs(_)
PageSeqs(n) ==
    IF n = 0 THEN {<< >>}
    ELSE LET P == PageSeqs(n - 1)
         IN P \cup {Append(q, g) : q \in P, g \in PagePool}

\* WebResearchSpider.parse: the item loaded for one page; every field of
\* an ItemLoader holds the list of the values added to it.
SpiderParse(page) ==
    [url |-> <<page.url>>, title |-> <<page.title>>, content |-> page.content]

ResearchInputs ==
    [op : {"run_research"}, crawl : {"ok", "fail"}, pages : PageSeqs(MaxPages)]

\* run_research with the crawler visiting fin.pages.
Research ==
    /\ fin.op = "run_research"
    /\ fout = << >>
    /\ fout' = <<RunResearch(fin.crawl)>>
    /\ UNCHANGED <<fin, disk, session, sup, calls, req, resp>>

\* What a listing service does with a request: the request raises, or it
\* is answered with a status code and, under 200, the postings as JSON.
SourceOutcomes(postings) ==
    {[kind |-> "raise"], [kind |-> "http", code |-> 503, jobs |-> << >>]}
    \cup {[kind |-> "http", code |-> 200, jobs |-> js] : js \in postings}

\* response.json() of GitHub Jobs: a list of postings.
GithubPostings ==
    { [i \in 1..Len(js) |->
         [title |-> js[i].title, company |-> js[i].company,
          location |-> js[i].location, url |-> js[i].url,
          description |-> js[i].description, created_at |-> js[i].posted_date]] :
      js \in JobSeqs(MaxJobs - 1) }

\* response.json()["results"] of Indeed.
IndeedPostings ==
    { [i \in 1..Len(js) |->
         [jobtitle |-> js[i].title, company |-> js[i].company,
          formattedLocation |-> js[i].location, url |-> js[i].url,
          snippet |-> js[i].description,
          formattedRelativeTime |-> js[i].posted_date]] :
      js \in JobSeqs(MaxJobs - 1) }

\* _search_github_jobs: has says whether search_params holds "position" and
\* "location"; without them the KeyError is caught before any request.
GithubJobs(has, o) ==
    IF ~has \/ o.kind = "raise" \/ o.code # 200 THEN << >>
    ELSE [i \in 1..Len(o.jobs) |->
            [title |-> o.jobs[i].title, company |-> o.jobs[i].company,
             location |-> o.jobs[i].location, url |-> o.jobs[i].url,
             description |-> o.jobs[i].description,
             posted_date |-> o.jobs[i].created_at]]

\* _search_indeed_jobs with the environment variable INDEED_API_KEY = key.
IndeedJobs(key, has, o) ==
    IF key \in {None, ""} \/ ~has \/ o.kind = "raise" \/ o.code # 200 THEN << >>
    ELSE [i \in 1..Len(o.jobs) |->
            [title |-> o.jobs[i].jobtitle, company |-> o.jobs[i].company,
             location |-> o.jobs[i].formattedLocation, url |-> o.jobs[i].url,
             description |-> o.jobs[i].snippet,
             posted_date |-> o.jobs[i].formattedRelativeTime]]

\* A search that gives up when GitHub has nothing.
SearchJobsGithubOnly(key, has, github, indeed) ==
    [res |-> Ret(IF GithubJobs(has, github) = << >> THEN << >>
                 ELSE GithubJobs(has, github)
                      \o (IF key \in {None, ""} THEN << >>
                          ELSE IndeedJobs(key, has, indeed))),
     calls |-> IF ~has THEN << >>
               ELSE <<"github">> \o (IF key \in {None, ""} THEN << >>
                                     ELSE <<"indeed">>)]

\* _search_jobs: [res, calls], calls being the services a request went to.
SearchJobsFrom(key, has, github, indeed) ==
    [res |-> Ret(GithubJobs(has, github)
                 \o (IF key \in {None, ""} THEN << >>
                     ELSE IndeedJobs(key, has, indeed))),
     calls |-> IF ~has THEN << >>
               ELSE <<"github">> \o (IF key \in {None, ""} THEN << >>
                                     ELSE <<"indeed">>)]

SearchSources ==
    /\ fin.op = "search_sources"
    /\ fout = << >>
    /\ fout' = <<SearchJobsFrom(fin.key, fin.has, fin.github, fin.indeed).res>>
    /\ calls' = SearchJobsFrom(fin.key, fin.has, fin.github, fin.indeed).calls
    /\ UNCHANGED <<fin, disk, session, sup, req, resp>>

AgentInputs ==
    MatchInputs \cup CoverLetterInputs \cup AnalyzeInputs \cup JobSearchInputs
    \cup ResearchInputs
    \cup [op : {"search_sources"}, key : {None, "", "k"}, has : BOOLEAN,
          github : SourceOutcomes(GithubPostings),
          indeed : SourceOutcomes(IndeedPostings)]

AgentInit ==
    /\ IdleWeb
    /\ fin \in AgentInputs
    /\ fout = << >>

AgentNext ==
    \/ MatchJobs
    \/ CoverLetter
    \/ Analyze
    \/ JobSearch
    \/ Research
    \/ SearchSources

AgentSpec == AgentInit /\ [][AgentNext]_vars

\* The position of the listing with the given title in the input list.
SourceIndex(title) == CHOOSE i \in 1..Len(fin.jobs) : fin.jobs[i].title = title

MatchReturned == fin.op = "match_jobs" /\ fout # << >> /\ fout[1].ok

\* C11: the list _match_jobs_to_analysis returns is in non-increasing order
\* of match_score, and listings of equal score stand in the order they had
\* in the input list.
C11_SortedDescendingAndStable ==
    MatchReturned =>
        \A i \in 1..Len(fout[1].v), j \in 1..Len(fout[1].v) :
            i < j =>
                /\ fout[1].v[i].match_score >= fout[1].v[j].match_score
                /\ fout[1].v[i].match_score = fout[1].v[j].match_score
                     => SourceIndex(fout[1].v[i].title)
                          < SourceIndex(fout[1].v[j].title)

\* Three listings were matched, a lower score first and two equal scores
\* after it.
C11_Witness ==
    /\ MatchReturned
    /\ Len(fout[1].v) = 3
    /\ fin.replies[1].score = 50
    /\ fin.replies[2].score = 90
    /\ fin.replies[3].score = 90

\* process of the cover letter agent was called.
CoverLetterCalled == fin.op = "cover_letter_process" /\ fout # << >>

\* C12: CoverLetterAgent.process never raises; without a resume path or
\* with a blank query it returns status "error" and calls neither the model
\* nor the analyzer.
C12_CoverLetterNeverRaises ==
    CoverLetterCalled =>
        /\ fout[1].ok
        /\ (fin.resume_path \in {None, ""} \/ Strip(fin.query) = << >>)
             => /\ fout[1].v.status = "error"
                /\ calls = << >>

\* process was called without a resume path and with a query.
C12_Witness ==
    /\ CoverLetterCalled
    /\ fin.resume_path = None
    /\ Strip(fin.query) # << >>
    /\ fout[1].ok
    /\ fout[1].v.status = "error"

\* The four paragraphs the model produced, in the order opening, skills,
\* motivation, closing, with one blank line between them.
FourParagraphs(c) ==
    Join("\n\n", <<c.opening_paragraph, c.skills_paragraph,
                   c.motivation_paragraph, c.closing_paragraph>>)

\* C13: on success the content of the cover letter is the four paragraphs
\* of the model in the order opening, skills, motivation, closing, joined by
\* blank lines, and the Supervisor's formatting returns it unchanged.
C13_LetterIsFourParagraphsInOrder ==
    (CoverLetterCalled /\ fout[1].ok /\ fout[1].v.status = "success")
    => /\ fout[1].v.content = FourParagraphs(LetterContentOf(fin.llm2))
       /\ fout[2] = Ret(fout[1].v.content)

\* A letter was generated from the standard content.
C13_Witness ==
    /\ CoverLetterCalled
    /\ fin.llm2 = "ok"
    /\ fout[1].ok
    /\ fout[1].v.status = "success"
    /\ fout[2].ok

\* C14 (as claimed): analyze_resume never raises; when the text extraction,
\* the model call or the parsing fails, it returns a record with the keys
\* error and details.
C14_AnalyzeNeverRaises ==
    (fin.op = "analyze_resume" /\ fout # << >>)
    => /\ fout[1].ok
       /\ (fin.kind # "pdf" \/ fin.llm = "fail")
            => (HasKey(fout[1].v, "error") /\ HasKey(fout[1].v, "details"))

\* The smaller of two numbers.
Min(a, b) == IF a <= b THEN a ELSE b

\* C19 (as claimed): process with a resume path, at least one listing found
\* and every upstream call succeeding returns status "success" with the top
\* min(k, 5) listings.
C19_JobSearchReturnsTopListings ==
    (/\ fin.op = "job_search_process"
     /\ fout # << >>
     /\ fin.resume_path \notin {None, ""}
     /\ fin.llm = "ok"
     /\ Len(fin.jobs) >= 1)
    => /\ fout[1].ok
       /\ fout[1].v.status = "success"
       /\ "results" \in DOMAIN fout[1].v
       /\ Len(fout[1].v.results.listings) = Min(Len(fin.jobs), 5)

\* C20 (as claimed): run_research returns one record for every item the
\* spider yielded, so a crawl of at least one page returns a list that is
\* not empty.
C20_ResearchReturnsCrawledItems ==
    (fin.op = "run_research" /\ fout # << >> /\ fout[1].ok)
    => fout[1].v.v = [i \in 1..Len(fin.pages) |-> SpiderParse(fin.pages[i])]

\* The reply has the shape the parsing of lines 165-169 accepts.
ReplyParses(reply) == reply.kind = "text" /\ Len(reply.matching) < 2

\* The places of the returned list that hold job n.
PlacesOf(n) == {i \in 1..Len(fout[1].v) : fout[1].v[i].title = fin.jobs[n].title}

Answered(o) ==
    IF o.kind = "raise" \/ o.code # 200 THEN << >>
    ELSE [i \in 1..Len(o.jobs) |->
            [title |-> IF "title" \in DOMAIN o.jobs[i] THEN o.jobs[i].title
                       ELSE o.jobs[i].jobtitle,
             url |-> o.jobs[i].url]]

\* The titles and urls of the returned listings, in order.
ReturnedListings ==
    [i \in 1..Len(fout[1].v) |->
        [title |-> fout[1].v[i].title, url |-> fout[1].v[i].url]]

\* C25: _search_jobs called with a position and a location does not raise;
\* it returns the listings GitHub answered with followed, when
\* INDEED_API_KEY is set, by those Indeed answered with, a failed source
\* counting as empty; Indeed is requested only when the key is set.
C25_SearchKeepsWorkingSources ==
    (fin.op = "search_sources" /\ fout # << >>)
    => /\ fout[1].ok
       /\ fin.has =>
            ReturnedListings
              = Answered(fin.github)
                \o (IF fin.key \in {None, ""} THEN << >> ELSE Answered(fin.indeed))
       /\ (\E i \in 1..Len(calls) : calls[i] = "indeed") => fin.key \notin {None, ""}

\* GitHub failed, the key is set and Indeed answered with two postings that
\* were returned.
C25_Witness ==
    /\ fin.op = "search_sources"
    /\ fout # << >>
    /\ fin.has
    /\ fin.key = "k"
    /\ fin.github.kind = "raise"
    /\ fin.indeed.kind = "http"
    /\ fin.indeed.code = 200
    /\ Len(fin.indeed.jobs) = 2
    /\ Len(fout[1].v) = 2

\* C23 (as claimed): when the model call that derives the search parameters
\* from the query fails, JobSearchAgent.process called with a resume path
\* does not answer with status "error".
C23_SearchProceedsWhenParsingFails ==
    (/\ fin.op = "job_search_process"
     /\ fout # << >>
     /\ fin.resume_path \notin {None, ""}
     /\ fin.llm = "fail")
    => /\ fout[1].ok
       /\ fout[1].v.status # "error"

-----------------------------------------------------------------------------
(* Claims about the Supervisor, checked under SupSpec.                     *)

\* C29 (as claimed): the record process_query returns for a job search
\* query, whose agent answers every call with a record of status "error"
\* (without a resume path by lines 328-332), carries an error that is not
\* null and the agent None, as it does when the agent raises.
C29_AgentErrorReportedInEnvelope ==
    (req.op = "process_query" /\ ClassifyIntent(req.query) = "job_search")
    => /\ "error" \in DOMAIN resp
       /\ resp.error # None
       /\ resp.agent = None

\* set_resume was called with a path that is not on disk.
SetResumeOfMissingFile ==
    /\ req.op = "set_resume"
    /\ disk[req.path] = "absent"

\* C30: set_resume with a path that does not exist on disk raises
\* FileNotFoundError, calls no agent and leaves the Supervisor's resume_path
\* and resume_insights as they were.
C30_MissingFileChangesNothing ==
    SetResumeOfMissingFile
    => /\ ~resp.ok
       /\ resp.exc = "FileNotFoundError"
       /\ calls = << >>
       /\ sup = req.before

\* set_resume of a missing file was called on a Supervisor that held the
\* path and the insights of an earlier resume.
C30_Witness ==
    /\ SetResumeOfMissingFile
    /\ sup.resume_path \in Paths
    /\ sup.resume_path # req.path
    /\ sup.resume_insights # PyNone

-----------------------------------------------------------------------------
(* Claims about uploads and the analysis status, checked under Spec.       *)

\* The session holds the insights of an analysis that did not fail.
HoldsRealAnalysis(sess) ==
    /\ HoldsResume(sess)
    /\ ~HasKey(GetResumeData(sess)[2], "error")

\* The upload that was just handled saved its file and its analysis
\* succeeded: set_resume returned a record without an error key.
UploadSucceeded ==
    /\ req.op \in UploadOps
    /\ req.path # None
    /\ req.returned
    /\ ~HasKey(sup.resume_insights, "error")

AnalysisComplete == Json(200, [success |-> TRUE, message |-> "Analysis complete"])

\* C27 (as claimed): GET /check_analysis_status right after an upload that
\* saved its file answers "Analysis complete" exactly when that upload's
\* analysis succeeded.
C27_StatusCompleteIffUploadSucceeded ==
    [][(/\ req.op \in UploadOps
        /\ req.path # None
        /\ req'.op = "check_analysis_status")
       => ((resp' = AnalysisComplete) <=> UploadSucceeded)]_vars

\* C28 (as claimed): POST /upload_resume that saved its file answers
\* success=true only when the session then holds insights without an error
\* key; when the analyzer returned an error record, the answer is
\* success=false and the session does not hold the error record.
C28_UploadSuccessOnlyForRealAnalysis ==
    (req.op = "upload_resume" /\ req.path # None)
    => /\ resp.body.success => HoldsRealAnalysis(session[req.s])
       /\ (req.returned /\ HasKey(sup.resume_insights, "error"))
            => /\ ~resp.body.success
               /\ GetResumeData(session[req.s])[2] # sup.resume_insights

-----------------------------------------------------------------------------
(* Requests of two browser sessions running in two worker threads against  *)
(* the one module-level job_assistant (routes.py:19-20): the specification *)
(* RaceSpec.  A handler runs in steps, and the steps of the two sessions   *)
(* interleave.  req[s] is the request session s has in flight; fin names   *)
(* the session whose request wrote job_assistant.resume_path last.         *)

RaceSessions == {"A", "B"}

\* The requests one session sends.
MaxRequests == 2

\* What the analyzer makes of the file at a path: different resumes give
\* different analyses.
AnalysisOf(path) ==
    CHOOSE a \in Analyses : (path = "uploads/a.pdf") <=> (a.key_skills # << >>)

RaceInit ==
    /\ disk = [p \in Paths |-> "absent"]
    /\ session = [s \in RaceSessions |-> EmptySession]
    /\ sup = SupervisorInit
    /\ calls = << >>
    /\ req = [s \in RaceSessions |->
                [op |-> "none", pc |-> "idle", n |-> 0, query |-> << >>,
                 path |-> None, valid |-> FALSE, clobbered |-> FALSE]]
    /\ resp = [s \in RaceSessions |-> NoRequest]
    /\ fin = [writer |-> None]
    /\ fout = << >>

\* Session s has a request in flight; it sends the next one when it has none.
InFlight(s) == req[s].pc \notin {"idle", "done"}

\* Line 74 of set_resume run for session s: self.resume_path = resume_path.
\* A chat message another session has in flight is marked as clobbered.
PathWritten(s, pc) ==
    /\ sup' = [sup EXCEPT !.resume_path = req[s].path]
    /\ fin' = [writer |-> s]
    /\ req' = [t \in RaceSessions |->
                 IF t = s THEN [req[t] EXCEPT !.pc = pc, !.clobbered = FALSE]
                 ELSE IF req[t].op = "chat_message" /\ InFlight(t)
                 THEN [req[t] EXCEPT !.clobbered = TRUE]
                 ELSE req[t]]

\* Line 75 of set_resume: self.resume_insights = analyze_resume(resume_path).
InsightsWritten(s, pc) ==
    /\ sup' = [sup EXCEPT !.resume_insights = ResumeInsights(AnalysisOf(req[s].path))]
    /\ req' = [req EXCEPT ![s].pc = pc]
    /\ UNCHANGED fin

\* POST /upload_resume arrives from session s: A uploads a.pdf, B notes.txt.
RaceUploadBegin(s) ==
    /\ ~InFlight(s)
    /\ req[s].n < MaxRequests
    /\ req' = [req EXCEPT ![s] =
                 [op |-> "upload_resume", pc |-> "save", n |-> req[s].n + 1,
                  query |-> << >>, path |-> UploadPath(SecureFilename(
                              IF s = "A" THEN "a.pdf" ELSE "notes.txt")),
                  valid |-> TRUE, clobbered |-> FALSE]]
    /\ resp' = [resp EXCEPT ![s] = NoRequest]
    /\ UNCHANGED <<disk, session, sup, calls, fin, fout>>

\* The next step of the upload_resume request of session s: the file is
\* saved (lines 126-131), set_resume writes the path and then the insights,
\* set_resume returns self.resume_insights and they are stored (lines 137-141).
RaceUploadStep(s) ==
    /\ req[s].op = "upload_resume"
    /\ InFlight(s)
    /\ CASE req[s].pc = "save" ->
              /\ disk' = [disk EXCEPT ![req[s].path] = "pdf"]
              /\ session' = [session EXCEPT ![s].resume_filepath = <<req[s].path>>,
                                            ![s].analysis_started = <<"t">>]
              /\ req' = [req EXCEPT ![s].pc = "set_path"]
              /\ UNCHANGED <<sup, resp, fin>>
         [] req[s].pc = "set_path" ->
              /\ PathWritten(s, "set_insights")
              /\ UNCHANGED <<disk, session, resp>>
         [] req[s].pc = "set_insights" ->
              /\ InsightsWritten(s, "store")
              /\ UNCHANGED <<disk, session, resp>>
         [] OTHER ->
              /\ session' = [session EXCEPT ![s] =
                                StoreResumeData(session[s], req[s].path,
                                                sup.resume_insights).sess]
              /\ resp' = [resp EXCEPT ![s] =
                             Json(200, [success |-> TRUE,
                                        message |-> "Resume uploaded successfully"])]
              /\ req' = [req EXCEPT ![s].pc = "done"]
              /\ UNCHANGED <<disk, sup, fin>>
    /\ UNCHANGED <<calls, fout>>

\* POST /chat/message arrives from session s.
RaceChatBegin(s, query) ==
    /\ ~InFlight(s)
    /\ req[s].n < MaxRequests
    /\ req' = [req EXCEPT ![s] =
                 [op |-> "chat_message", pc |-> "check", n |-> req[s].n + 1,
                  query |-> query, path |-> None,
                  valid |-> ChatFormValid(TRUE, query), clobbered |-> FALSE]]
    /\ resp' = [resp EXCEPT ![s] = NoRequest]
    /\ UNCHANGED <<disk, session, sup, calls, fin, fout>>

\* The chat request of session s ends with the answer r.
RaceChatEnds(s, r) ==
    /\ resp' = [resp EXCEPT ![s] = r]
    /\ req' = [req EXCEPT ![s].pc = "done"]

\* Lines 207-221 for session s, process_query having behaved as pq: the
\* dispatch is logged with the resume_path the Supervisor held.
RaceDispatched(s, pq) ==
    /\ RaceChatEnds(s, ChatAnswered(req[s].query,
                                    [sup |-> sup, calls |-> << >>, res |-> Ret(None)],
                                    pq).resp)
    /\ calls' = IF Contains(Lower(req[s].query), <<"j","o","b">>)
                THEN Append(calls, [s |-> s, query |-> req[s].query,
                                    resume_path |-> sup.resume_path])
                ELSE calls

\* The next step of the chat_message request of session s: the form and
\* the session are checked (lines 195-201), set_resume writes the path and
\* then the insights (line 204), the query is dispatched (lines 206-221).
RaceChatStep(s) ==
    /\ req[s].op = "chat_message"
    /\ InFlight(s)
    /\ CASE req[s].pc = "check" ->
              /\ IF ~req[s].valid
                 THEN RaceChatEnds(s, Json(400, [error |-> "Invalid form submission"]))
                 ELSE IF SessionGet(session[s], "resume_path") \in {None, ""}
                 THEN RaceChatEnds(s, ChatError(Raise("ValueError",
                          "No resume loaded. Please upload your resume first.")))
                 ELSE /\ req' = [req EXCEPT ![s].pc = "set_path",
                                            ![s].path = SessionGet(session[s], "resume_path")]
                      /\ UNCHANGED resp
              /\ UNCHANGED <<sup, calls, fin>>
         [] req[s].pc = "set_path" ->
              /\ PathWritten(s, "set_insights")
              /\ UNCHANGED <<resp, calls>>
         [] req[s].pc = "set_insights" ->
              /\ InsightsWritten(s, "dispatch")
              /\ UNCHANGED <<resp, calls>>
         [] OTHER ->
              /\ \E env \in Envs :
                    RaceDispatched(s, ProcessQuery(sup, disk, req[s].query, env))
              /\ UNCHANGED <<sup, fin>>
    /\ UNCHANGED <<disk, session, fout>>

RaceNext ==
    \/ \E s \in RaceSessions : RaceUploadBegin(s)
    \/ \E s \in RaceSessions : RaceUploadStep(s)
    \/ \E s \in RaceSessions, query \in ChatQueries : RaceChatBegin(s, query)
    \/ \E s \in RaceSessions : RaceChatStep(s)

RaceSpec == RaceInit /\ [][RaceNext]_vars

\* C21 (as claimed): when the request of another session has written the
\* Supervisor's resume_path while the valid job query of a session that
\* holds a resume was in flight, that query is dispatched by process_query
\* with the resume_path the other session stored.
C21_QueryDispatchedWithOtherPath ==
    \A s \in RaceSessions :
        (/\ req[s].op = "chat_message"
         /\ req[s].pc = "done"
         /\ req[s].query = JobQuery
         /\ HoldsResume(session[s])
         /\ req[s].clobbered)
        => \E i \in 1..Len(calls) :
              /\ calls[i].s = s
              /\ calls[i].query = req[s].query
              /\ calls[i].resume_path # SessionGet(session[s], "uploaded_resume_path")

====
